---- MODULE Spec2Model ----
(***************************************************************************)
(* FlightME: the legacy search form (main.js: input normaliser, submit     *)
(* validator, inline error alert), the React search form (FlightSearch),   *)
(* the mock flight service (flightService) and the shared query cache read *)
(* by the price analysis panel.                                            *)
(*                                                                         *)
(* Text is a sequence of one-character strings.  Instants are whole hours  *)
(* since 2024-01-01T00:00Z; a calendar date is its day number since        *)
(* 2024-01-01, which is what an ISO "YYYY-MM-DD" string denotes.           *)
(***************************************************************************)
EXTENDS Integers, Sequences, FiniteSets, TLC

VARIABLES
    \* legacy page (main.js)
    originField,    \* value of input#origin
    destField,      \* value of input#destination
    dateField,      \* value of input#date: <<>> (empty) or <<day number>>
    clock,          \* the browser's clock: local date, local hour, UTC offset
    alerts,         \* the .search-form-error elements of the form, in document order
    page,           \* "editing" | "navigating" (the form's default action ran)
    last,           \* the most recent handler run and, for a submit, its outcome
    \* React form (FlightSearch), service, cache, panel
    origin, destination, departDate, returnDate, passengers,
    isSearching,    \* the React state
    submitDisabled, \* the rendered submit button's disabled attribute
    pending,        \* the searchFlights calls in flight (their parameters)
    cache,          \* the query cache entry under ['flightPriceData']
    panel,          \* what PriceAnalysis rendered last: insights and chart data
    log,            \* the observable events so far, in order
    lastResolved,   \* the value the latest fulfilled searchFlights call resolved with
    \* mock service on its own
    svcClock,       \* the clock getMockPriceTrends reads
    svcResult       \* what the last searchFlights call resolved with

legacyVars == <<originField, destField, dateField, clock, alerts, page, last>>
modernVars == <<origin, destination, departDate, returnDate, passengers,
                isSearching, submitDisabled, pending, cache, panel, log,
                lastResolved>>
serviceVars == <<svcClock, svcResult>>
vars == <<legacyVars, modernVars, serviceVars>>

----------------------------------------------------------------------------
(* Text *)

LowerLetters == <<"a","b","c","d","e","f","g","h","i","j","k","l","m",
                  "n","o","p","q","r","s","t","u","v","w","x","y","z">>
UpperLetters == <<"A","B","C","D","E","F","G","H","I","J","K","L","M",
                  "N","O","P","Q","R","S","T","U","V","W","X","Y","Z">>
Capitals == {UpperLetters[i] : i \in 1..Len(UpperLetters)}
Whitespace == {" "}

\* String.prototype.toUpperCase, one character
UpperChar(c) ==
    IF \E i \in 1..Len(LowerLetters) : LowerLetters[i] = c
    THEN UpperLetters[CHOOSE i \in 1..Len(LowerLetters) : LowerLetters[i] = c]
    ELSE c

toUpperCase(s) == [i \in 1..Len(s) |-> UpperChar(s[i])]

\* String.prototype.slice(0, n)
slice(s, n) == SubSeq(s, 1, IF Len(s) < n THEN Len(s) ELSE n)

RECURSIVE trimStart(_)
trimStart(s) ==
    IF s # <<>> /\ Head(s) \in Whitespace THEN trimStart(Tail(s)) ELSE s

RECURSIVE trimEnd(_)
trimEnd(s) ==
    IF s # <<>> /\ s[Len(s)] \in Whitespace
    THEN trimEnd(SubSeq(s, 1, Len(s) - 1)) ELSE s

\* String.prototype.trim
trim(s) == trimEnd(trimStart(s))

JFK == <<"J","F","K">>
LAX == <<"L","A","X">>

\* The texts a code field may hold before any handler ran (markup, restored
\* or scripted values) and the texts an edit may leave in it.
FieldTexts ==
    { <<>>, JFK, <<" ","J","F","K">>, <<"l","a","x">> }

\* The texts an edit leaves in a code field before the input listener runs.
TypedTexts ==
    FieldTexts \cup { <<"j","f","k">>, <<"l","a","x","x">> }

----------------------------------------------------------------------------
(* Calendar and clock *)

IsLeapYear(y) == (y % 4 = 0 /\ y % 100 # 0) \/ y % 400 = 0

DaysInMonth(y, m) ==
    IF m \in {4, 6, 9, 11} THEN 30
    ELSE IF m = 2 THEN (IF IsLeapYear(y) THEN 29 ELSE 28)
    ELSE 31

RECURSIVE DaysBeforeYear(_)
DaysBeforeYear(y) ==
    IF y <= 2024 THEN 0
    ELSE DaysBeforeYear(y - 1) + (IF IsLeapYear(y - 1) THEN 366 ELSE 365)

RECURSIVE DaysBeforeMonth(_, _)
DaysBeforeMonth(y, m) ==
    IF m <= 1 THEN 0 ELSE DaysBeforeMonth(y, m - 1) + DaysInMonth(y, m - 1)

\* ECMAScript MakeDay: the day number of year y, month m, day d; a day past the
\* end of the month runs on into the next one (29 February 2025 is 1 March).
DayNumber(y, m, d) == DaysBeforeYear(y) + DaysBeforeMonth(y, m) + d - 1

\* The local calendar dates the page is opened on.
Todays ==
    { [y |-> 2024, m |-> 2, d |-> 29], [y |-> 2024, m |-> 6, d |-> 15] }

\* Local time of day, whole hours.
Hours == {8, 20}

\* Time zones: hours east of UTC.
Offsets == {-5, 0, 9}

Clocks == [today : Todays, hour : Hours, offset : Offsets]

TodayNumber(c) == DayNumber(c.today.y, c.today.m, c.today.d)

\* new Date(date) for an ISO date-only string: midnight UTC of that date
ParseDate(n) == n * 24

\* const today = new Date(); today.setHours(0, 0, 0, 0): local midnight
LocalMidnight(c) == TodayNumber(c) * 24 - c.offset

\* const maxDate = new Date(); maxDate.setFullYear(maxDate.getFullYear() + 1):
\* the same local month, day and time of day one year on
MaxDate(c) ==
    DayNumber(c.today.y + 1, c.today.m, c.today.d) * 24 + c.hour - c.offset

\* The dates a user picks: around today and around one year from today.
DateChoices(c) ==
    { TodayNumber(c) + k : k \in {-1, 0, 1} }
    \cup { DayNumber(c.today.y + 1, c.today.m, c.today.d) + k : k \in {-1, 0, 1} }

\* The values the date input takes: empty, or one of the dates.
DateInputs(c) == {<<>>} \cup {<<n>> : n \in DateChoices(c)}

----------------------------------------------------------------------------
(* Legacy form: validation (main.js) *)

MsgOrigin == "Please enter a valid 3-letter origin airport code"
MsgDestination == "Please enter a valid 3-letter destination airport code"
MsgSame == "Origin and destination cannot be the same"
MsgNoDate == "Please select a travel date"
MsgPast == "Travel date cannot be in the past"
MsgTooFar == "Travel date cannot be more than 1 year in the future"

\* a faulty variant of isValidAirportCode: the pattern accepts any three characters
isValidAirportCodeAnyChars(code) == Len(code) = 3

\* /^[A-Z]{3}$/.test(code)
isValidAirportCode(code) ==
    Len(code) = 3 /\ \A i \in 1..Len(code) : code[i] \in Capitals

\* The airport-code block of the submit listener: [isValid, errorMessage]
ValidateCodes(o, d) ==
    IF Len(o) # 3 \/ ~isValidAirportCode(o)
    THEN [isValid |-> FALSE, errorMessage |-> MsgOrigin]
    ELSE IF Len(d) # 3 \/ ~isValidAirportCode(d)
    THEN [isValid |-> FALSE, errorMessage |-> MsgDestination]
    ELSE IF o = d
    THEN [isValid |-> FALSE, errorMessage |-> MsgSame]
    ELSE [isValid |-> TRUE, errorMessage |-> ""]

\* The date block, run after the airport-code block on its result r: every
\* failing branch assigns isValid and errorMessage again.
ValidateDate(r, date, c) ==
    IF date = <<>>
    THEN [isValid |-> FALSE, errorMessage |-> MsgNoDate]
    ELSE LET selectedDate == ParseDate(date[1])
             r1 == IF selectedDate < LocalMidnight(c)
                   THEN [isValid |-> FALSE, errorMessage |-> MsgPast]
                   ELSE r
         IN  IF selectedDate > MaxDate(c)
             THEN [isValid |-> FALSE, errorMessage |-> MsgTooFar]
             ELSE r1

\* The submit listener's verdict on the three field values.
Validate(o, d, date, c) == ValidateDate(ValidateCodes(trim(o), trim(d)), date, c)

\* a faulty variant of showFormError: a new alert element for every failure
showFormErrorNoReuse(as, message) ==
    Append(as, [text |-> message, hasDismiss |-> FALSE])

\* a faulty variant of the input listener: it cuts the text and keeps its case
NormalizeKeepCase(text) ==
    IF Len(text) > 3 THEN slice(text, 3) ELSE text

\* showFormError(message) on the form's alert elements: an alert is
\* [text, hasDismiss]; setting textContent replaces every child of the element
\* with one text node.
showFormError(as, message) ==
    LET created == IF as = <<>>
                   THEN <<[text |-> "", hasDismiss |-> TRUE]>>
                   ELSE as
    IN  [created EXCEPT ![1] = [text |-> message, hasDismiss |-> FALSE]]

\* the input listener of the airport-code fields
Normalize(text) ==
    LET up == toUpperCase(text)
    IN  IF Len(up) > 3 THEN slice(up, 3) ELSE up

NoRun == [op |-> "load", prevented |-> FALSE, message |-> "",
          typed |-> <<>>, reused |-> FALSE]

LegacyIdle ==
    /\ originField = <<>> /\ destField = <<>> /\ dateField = <<>>
    /\ clock = CHOOSE c \in Clocks : TRUE
    /\ alerts = <<>> /\ page = "editing" /\ last = NoRun

\* DOMContentLoaded: a fresh document
LegacyInit ==
    /\ originField \in FieldTexts
    /\ destField \in FieldTexts
    /\ dateField = <<>>
    /\ clock \in Clocks
    /\ alerts = <<>>
    /\ page = "editing"
    /\ last = NoRun

\* the user edits an airport-code field: the input listener runs on the new text
InputOrigin(text) ==
    /\ UNCHANGED <<modernVars, serviceVars>>
    /\ page = "editing"
    /\ originField' = Normalize(text)
    /\ last' = [NoRun EXCEPT !.op = "input:origin", !.typed = text]
    /\ UNCHANGED <<destField, dateField, clock, alerts, page>>

InputDestination(text) ==
    /\ UNCHANGED <<modernVars, serviceVars>>
    /\ page = "editing"
    /\ destField' = Normalize(text)
    /\ last' = [NoRun EXCEPT !.op = "input:destination", !.typed = text]
    /\ UNCHANGED <<originField, dateField, clock, alerts, page>>

\* the user picks or clears the date (no listener)
PickDate(d) ==
    /\ UNCHANGED <<modernVars, serviceVars>>
    /\ page = "editing"
    /\ dateField' = d
    /\ last' = [NoRun EXCEPT !.op = "date"]
    /\ UNCHANGED <<originField, destField, clock, alerts, page>>

\* the submit listener
LegacySubmit ==
    /\ UNCHANGED <<modernVars, serviceVars>>
    /\ page = "editing"
    /\ LET r == Validate(originField, destField, dateField, clock)
       IN  IF ~r.isValid
           THEN /\ alerts' = showFormError(alerts, r.errorMessage)
                /\ last' = [NoRun EXCEPT !.op = "submit", !.prevented = TRUE,
                                         !.message = r.errorMessage,
                                         !.reused = (alerts # <<>>)]
                /\ page' = page
           ELSE /\ alerts' = alerts
                /\ last' = [NoRun EXCEPT !.op = "submit"]
                /\ page' = "navigating"
    /\ UNCHANGED <<originField, destField, dateField, clock>>

\* the default action ran: the next document loads
PageLoad ==
    /\ UNCHANGED <<modernVars, serviceVars>>
    /\ page = "navigating"
    /\ originField' \in FieldTexts
    /\ destField' \in FieldTexts
    /\ dateField' = <<>>
    /\ alerts' = <<>>
    /\ page' = "editing"
    /\ last' = NoRun
    /\ UNCHANGED clock

----------------------------------------------------------------------------
(* Mock flight service (flightService.ts) *)

SeriesLength == 14
BasePrice == 280
ThirdDayDip == 20
SeventhDayDip == 30
RandomSpan == 50
MarkedIndex == 3

\* A time zone: its offset (hours east of UTC) before a daylight-saving
\* change, the local day of the change (<<>>: none) and the offset after it.
\* The change happens at 02:00 local time; a wall-clock time that the change
\* skips or repeats is read with the offset before the change.
Zones ==
    { [before |-> o, shiftDay |-> <<>>, after |-> o] : o \in {-5, 0, 1, 9} }
    \cup { [before |-> 1, shiftDay |-> <<d>>, after |-> 2] : d \in {103, 110} }
    \cup { [before |-> -4, shiftDay |-> <<d>>, after |-> -5] : d \in {103} }

OffsetAt(zone, localDay, hour) ==
    IF zone.shiftDay = <<>> THEN zone.before
    ELSE LET d == zone.shiftDay[1]
             firstHourAfter == IF zone.after > zone.before THEN 3 ELSE 2
         IN  IF localDay > d \/ (localDay = d /\ hour >= firstHourAfter)
             THEN zone.after ELSE zone.before

\* The service's clock: local day number, local hour, zone.
ServiceClocks == [day : {100}, hour : 0..23, zone : Zones]

\* Date.prototype.toISOString().split('T')[0] of the instant that is local
\* day localDay at the clock's time of day: the calendar date in UTC
IsoDateOf(c, localDay) ==
    (localDay * 24 + c.hour - OffsetAt(c.zone, localDay, c.hour)) \div 24

\* The values Math.floor(Math.random() * 50) takes in a run: the extremes.
RandomValues == {0, RandomSpan - 1}

\* The 14 draws of one getMockPriceTrends call: the days whose base price is
\* lowered most (0, 3, 7) draw independently, the other days draw alike.
Draws ==
    { [i \in 0..(SeriesLength - 1) |->
          IF i = 0 THEN a ELSE IF i = MarkedIndex THEN b
          ELSE IF i = 7 THEN d ELSE e] : a, b, d, e \in RandomValues }

PointPrice(i, r) ==
    LET b1 == IF i % 3 = 0 THEN BasePrice - ThirdDayDip ELSE BasePrice
        b2 == IF i % 7 = 0 THEN b1 - SeventhDayDip ELSE b1
    IN  b2 + r

\* getMockPriceTrends() at clock c with the random draws draw
getMockPriceTrends(c, draw) ==
    [k \in 1..SeriesLength |->
        LET i == k - 1
        IN  [date |-> IsoDateOf(c, c.day + i),
             price |-> PointPrice(i, draw[i]),
             isLowestPrice |-> (i = MarkedIndex)]]

getMockInsights ==
    << [icon |-> "money", title |-> "Lowest Price",
        description |-> "Book on Saturday for the best deal at $260!",
        type |-> "good"],
       [icon |-> "warning", title |-> "Price Trend",
        description |-> "Prices are expected to increase by 15% next week.",
        type |-> "warning"],
       [icon |-> "crystal", title |-> "Future Prediction",
        description |-> "Wait 3 days for a potential price drop.",
        type |-> "info"] >>

\* How the awaited API call of searchFlights settles.  The mock's timer always
\* resolves; the call it stands for may reject.
ApiOutcomes == {"resolve", "reject"}

ToastServiceError == "toast.error:Failed to search flights. Please try again."

\* searchFlights(params): what the returned promise settles with, and the
\* notifications the service itself shows.
searchFlights(params, c, draw, api) ==
    IF api = "resolve"
    THEN [settled |-> "fulfilled",
          value |-> [success |-> TRUE, message |-> "Flight search successful",
                     data |-> [priceTrends |-> getMockPriceTrends(c, draw),
                               insights |-> getMockInsights]],
          events |-> <<>>]
    ELSE [settled |-> "rejected",
          value |-> [success |-> FALSE, message |-> "error", data |-> <<>>],
          events |-> <<ToastServiceError>>]

ServiceIdle ==
    /\ svcClock = CHOOSE c \in ServiceClocks : c.hour = 12 /\ c.zone.shiftDay = <<>>
    /\ svcResult = <<>>

ServiceInit ==
    /\ svcClock \in ServiceClocks
    /\ svcResult = <<>>

AnyParams ==
    [origin |-> JFK, destination |-> LAX, departDate |-> <<100>>,
     returnDate |-> <<107>>, passengers |-> 1]

\* one call of flightService.searchFlights, from call to settlement
ServiceSearch(draw, api) ==
    /\ UNCHANGED <<legacyVars, modernVars>>
    /\ svcResult' = <<searchFlights(AnyParams, svcClock, draw, api)>>
    /\ UNCHANGED svcClock

----------------------------------------------------------------------------
(* React form (FlightSearch.tsx), shared cache, PriceAnalysis *)

\* submit attempts (events on the form's submit control) in one run
MaxSubmits == 2

\* The texts typed into From and To.
ModernTexts == { <<>>, JFK, <<"j","f","k">> }
\* The values of the two date inputs.
ModernDates == { <<>>, <<100>> }
\* The passenger counts picked in a run, as the Select's value strings.
PassengersPicked == {"1", "2"}

\* parseInt(passengers, 10) on the Select's value strings
parseInt(s) ==
    CASE s = "1" -> 1 [] s = "2" -> 2 [] s = "3" -> 3 [] s = "4" -> 4 [] s = "5" -> 5

\* The draws of the searches of a run of the form.
FormDraws ==
    { dr \in Draws : \A i, j \in DOMAIN dr : dr[i] = dr[j] }

ToastRequired == "toast.error:Please fill in all required fields"
ToastSuccess == "toast.success:Flight prices analyzed successfully!"

IsErrorToast(e) ==
    e \in {ToastRequired, ToastServiceError, "toast.error:caller"}

\* the default insights of PriceAnalysis
DefaultInsights ==
    << [icon |-> "money", title |-> "Lowest Price",
        description |-> "Book on Saturday for the best deal at $260!",
        type |-> "good"],
       [icon |-> "warning", title |-> "Price Trend",
        description |-> "Prices are expected to increase by 15% next week.",
        type |-> "warning"],
       [icon |-> "crystal", title |-> "Future Prediction",
        description |-> "Wait 3 days for a potential price drop.",
        type |-> "info"] >>

\* const insights = priceData?.insights || [defaults]: an array, empty or
\* not, is truthy; only a missing entry falls through to the defaults
PanelInsights(entry) ==
    IF entry = <<>> THEN DefaultInsights ELSE entry[1].insights

\* const priceTrends = priceData?.priceTrends || []
PanelTrends(entry) ==
    IF entry = <<>> THEN <<>> ELSE entry[1].priceTrends

\* the default data of PriceChart: 1 to 7 May 2025
SampleChartData ==
    LET prices == <<340, 320, 300, 260, 280, 310, 290>>
    IN  [k \in 1..7 |-> [date |-> DayNumber(2025, 5, k), price |-> prices[k],
                         isLowestPrice |-> (k = 4)]]

\* const chartData = priceTrends.length > 0 ? priceTrends : [sample]
ChartData(priceTrends) ==
    IF Len(priceTrends) > 0 THEN priceTrends ELSE SampleChartData

\* what PriceAnalysis renders from the cache entry
Rendered(entry) ==
    [insights |-> PanelInsights(entry), chart |-> ChartData(PanelTrends(entry))]

Attempts == Len(SelectSeq(log, LAMBDA e : e \in {"submit", "blocked"}))

ModernIdle ==
    /\ origin = <<>> /\ destination = <<>>
    /\ departDate = <<>> /\ returnDate = <<>> /\ passengers = "1"
    /\ isSearching = FALSE /\ submitDisabled = FALSE
    /\ pending = <<>> /\ cache = <<>> /\ panel = Rendered(<<>>) /\ log = <<>>
    /\ lastResolved = <<>>

\* the useState initial values, an empty query cache, the first render
ModernInit == ModernIdle

SetOrigin(text) ==
    /\ UNCHANGED <<legacyVars, serviceVars>>
    /\ origin' = text
    /\ UNCHANGED <<destination, departDate, returnDate, passengers,
                   isSearching, submitDisabled, pending, cache, panel, log,
                   lastResolved>>

SetDestination(text) ==
    /\ UNCHANGED <<legacyVars, serviceVars>>
    /\ destination' = text
    /\ UNCHANGED <<origin, departDate, returnDate, passengers,
                   isSearching, submitDisabled, pending, cache, panel, log,
                   lastResolved>>

SetDepartDate(d) ==
    /\ UNCHANGED <<legacyVars, serviceVars>>
    /\ departDate' = d
    /\ UNCHANGED <<origin, destination, returnDate, passengers,
                   isSearching, submitDisabled, pending, cache, panel, log,
                   lastResolved>>

SetReturnDate(d) ==
    /\ UNCHANGED <<legacyVars, serviceVars>>
    /\ returnDate' = d
    /\ UNCHANGED <<origin, destination, departDate, passengers,
                   isSearching, submitDisabled, pending, cache, panel, log,
                   lastResolved>>

SetPassengers(p) ==
    /\ UNCHANGED <<legacyVars, serviceVars>>
    /\ passengers' = p
    /\ UNCHANGED <<origin, destination, departDate, returnDate,
                   isSearching, submitDisabled, pending, cache, panel, log,
                   lastResolved>>

\* a faulty variant of the submit button: it is never disabled
SubmitEnabledAlways == TRUE

\* <Button type="submit" disabled={isSearching}>: a disabled submit button
\* takes no click and blocks implicit submission, so no submit event fires
SubmitEnabled == ~submitDisabled

\* a faulty variant of the required-field check: the return date is not asked
RequiredFieldsMissingNoReturn ==
    \/ origin = <<>> \/ destination = <<>> \/ departDate = <<>>

\* !origin || !destination || !departDate || !returnDate
RequiredFieldsMissing ==
    \/ origin = <<>> \/ destination = <<>>
    \/ departDate = <<>> \/ returnDate = <<>>

\* the searchParams object handleSearch builds
SearchParams ==
    [origin |-> origin, destination |-> destination, departDate |-> departDate,
     returnDate |-> returnDate, passengers |-> parseInt(passengers)]

\* handleSearch up to its await.  The state update made inside the submit
\* event is rendered before the browser dispatches the next event, so the
\* button is disabled when this step ends.
Submit ==
    /\ UNCHANGED <<legacyVars, serviceVars>>
    /\ Attempts < MaxSubmits
    /\ SubmitEnabled
    /\ IF RequiredFieldsMissing
       THEN /\ log' = log \o <<"submit", ToastRequired>>
            /\ UNCHANGED <<isSearching, submitDisabled, pending>>
       ELSE /\ isSearching' = TRUE
            /\ submitDisabled' = TRUE
            /\ pending' = Append(pending, SearchParams)
            /\ log' = log \o <<"submit", "setIsSearching(true)", "searchFlights">>
    /\ UNCHANGED <<origin, destination, departDate, returnDate, passengers,
                   cache, panel, lastResolved>>

\* the user activates the disabled submit control: nothing runs
BlockedSubmit ==
    /\ UNCHANGED <<legacyVars, serviceVars>>
    /\ Attempts < MaxSubmits
    /\ ~SubmitEnabled
    /\ log' = Append(log, "blocked")
    /\ UNCHANGED <<origin, destination, departDate, returnDate, passengers,
                   isSearching, submitDisabled, pending, cache, panel,
                   lastResolved>>

\* a faulty variant of handleSearch's catch: it reports the failure again
CaughtEventsToastAgain == <<"console.error", "toast.error:caller">>

\* catch (error) { console.error(...) }: nothing shown, nothing rethrown
CaughtEvents == <<"console.error">>

\* a faulty variant of the cache write: the first result is kept
CacheWriteKeepFirst(entry, result) ==
    IF entry = <<>> THEN <<result.data>> ELSE entry

\* queryClient.setQueryData(['flightPriceData'], result.data)
CacheWrite(entry, result) == <<result.data>>

\* a faulty variant of handleSearch's end: no finally, the flag is reset on
\* success only
ContinuationNoFinally(r) ==
    IF r.settled = "fulfilled"
    THEN [cache |-> CacheWrite(cache, r.value),
          isSearching |-> FALSE,
          events |-> <<"fulfilled", "setQueryData", ToastSuccess,
                       "setIsSearching(false)">>]
    ELSE [cache |-> cache,
          isSearching |-> TRUE,
          events |-> r.events \o <<"rejected">> \o CaughtEvents]

\* a faulty variant of handleSearch's catch: it drops the cached result
ContinuationClearsOnFailure(r) ==
    IF r.settled = "fulfilled"
    THEN [cache |-> CacheWrite(cache, r.value),
          isSearching |-> FALSE,
          events |-> <<"fulfilled", "setQueryData", ToastSuccess,
                       "setIsSearching(false)">>]
    ELSE [cache |-> <<>>,
          isSearching |-> FALSE,
          events |-> r.events \o <<"rejected">> \o CaughtEvents
                     \o <<"setIsSearching(false)">>]

\* handleSearch from its await on, for the settlement r of the call
Continuation(r) ==
    IF r.settled = "fulfilled"
    THEN [cache |-> CacheWrite(cache, r.value),
          isSearching |-> FALSE,
          events |-> <<"fulfilled", "setQueryData", ToastSuccess,
                       "setIsSearching(false)">>]
    ELSE [cache |-> cache,
          isSearching |-> FALSE,
          events |-> r.events \o <<"rejected">> \o CaughtEvents
                     \o <<"setIsSearching(false)">>]

\* The oldest call in flight settles; the rest of searchFlights and of
\* handleSearch run in the same turn of the event loop.
Settle(draw, api) ==
    /\ UNCHANGED <<legacyVars, serviceVars>>
    /\ pending # <<>>
    /\ LET r == searchFlights(Head(pending), svcClock, draw, api)
           k == Continuation(r)
       IN  /\ cache' = k.cache
           /\ isSearching' = k.isSearching
           /\ log' = log \o k.events
           /\ lastResolved' = IF r.settled = "fulfilled" THEN <<r.value>>
                               ELSE lastResolved
    /\ pending' = Tail(pending)
    /\ UNCHANGED <<origin, destination, departDate, returnDate, passengers,
                   submitDisabled, panel>>

\* the longest insight sequence of a cached result
MaxInsights == 2

\* insights a result may carry, none of them a default one
InsightPool ==
    { [icon |-> "money", title |-> "Cheapest Day",
       description |-> "Fly on Tuesday.", type |-> "good"],
      [icon |-> "warning", title |-> "Rising",
       description |-> "Prices are going up.", type |-> "warning"],
      [icon |-> "crystal", title |-> "Outlook",
       description |-> "Wait a week.", type |-> "info"] }

InsightSeqs ==
    UNION { [1..n -> InsightPool] : n \in 0..MaxInsights }

\* values of the PriceData type: priceTrends and insights, each possibly empty
PriceDataValues ==
    [ priceTrends : {<<>>, SampleChartData}, insights : InsightSeqs ]

\* queryClient.setQueryData(['flightPriceData'], data) for any PriceData
SetQueryData(data) ==
    /\ UNCHANGED <<legacyVars, serviceVars>>
    /\ cache' = CacheWrite(cache, [data |-> data])
    /\ cache' # cache
    /\ UNCHANGED <<origin, destination, departDate, returnDate, passengers,
                   isSearching, submitDisabled, pending, panel, log,
                   lastResolved>>

\* FlightSearch re-renders with the current state
RenderForm ==
    /\ UNCHANGED <<legacyVars, serviceVars>>
    /\ submitDisabled # isSearching
    /\ submitDisabled' = isSearching
    /\ UNCHANGED <<origin, destination, departDate, returnDate, passengers,
                   isSearching, pending, cache, panel, log, lastResolved>>

\* PriceAnalysis re-renders from the cache entry
RenderPanel ==
    /\ UNCHANGED <<legacyVars, serviceVars>>
    /\ panel # Rendered(cache)
    /\ panel' = Rendered(cache)
    /\ UNCHANGED <<origin, destination, departDate, returnDate, passengers,
                   isSearching, submitDisabled, pending, cache, log,
                   lastResolved>>

----------------------------------------------------------------------------
(* Specifications *)

\* the React application
Init == LegacyIdle /\ ModernInit /\ ServiceIdle

Next ==
    \/ \E t \in ModernTexts : SetOrigin(t)
    \/ \E t \in ModernTexts : SetDestination(t)
    \/ \E d \in ModernDates : SetDepartDate(d)
    \/ \E d \in ModernDates : SetReturnDate(d)
    \/ \E p \in PassengersPicked : SetPassengers(p)
    \/ Submit
    \/ BlockedSubmit
    \/ \E dr \in FormDraws, api \in ApiOutcomes : Settle(dr, api)
    \/ RenderForm
    \/ RenderPanel

Spec == Init /\ [][Next]_vars

\* the legacy page
InitLegacy == LegacyInit /\ ModernIdle /\ ServiceIdle

NextLegacy ==
    \/ \E t \in TypedTexts : InputOrigin(t)
    \/ \E t \in TypedTexts : InputDestination(t)
    \/ \E d \in DateInputs(clock) : PickDate(d)
    \/ LegacySubmit
    \/ PageLoad

SpecLegacy == InitLegacy /\ [][NextLegacy]_vars

\* the mock service alone, at every clock
InitService == LegacyIdle /\ ModernIdle /\ ServiceInit

NextService ==
    \E dr \in Draws, api \in ApiOutcomes : ServiceSearch(dr, api)

\* The React application with its scheduling: the timer the service awaits
\* fires, so a call in flight settles, and React renders a pending state
\* update.  The texts typed are an empty field and one airport code.
NextFair ==
    \/ \E t \in {<<>>, JFK} : SetOrigin(t)
    \/ \E t \in {<<>>, LAX} : SetDestination(t)
    \/ \E d \in ModernDates : SetDepartDate(d)
    \/ \E d \in ModernDates : SetReturnDate(d)
    \/ \E p \in PassengersPicked : SetPassengers(p)
    \/ Submit
    \/ BlockedSubmit
    \/ \E dr \in FormDraws, api \in ApiOutcomes : Settle(dr, api)
    \/ RenderForm
    \/ RenderPanel

SpecFair ==
    /\ Init /\ [][NextFair]_vars
    /\ WF_vars(\E dr \in FormDraws, api \in ApiOutcomes : Settle(dr, api))
    /\ WF_vars(RenderForm)

SpecService == InitService /\ [][NextService]_vars

\* the insight panel alone, over every value the cache entry may hold
InitPanel == LegacyIdle /\ ModernInit /\ ServiceIdle

NextPanel ==
    \/ \E d \in PriceDataValues : SetQueryData(d)
    \/ RenderPanel

SpecPanel == InitPanel /\ [][NextPanel]_vars

----------------------------------------------------------------------------
(* Claims: legacy form *)

\* the shape the specification asks of an airport code
MatchesCodePattern(s) == Len(s) = 3 /\ \A i \in 1..Len(s) : s[i] \in Capitals

\* The message of the first failing rule, in the order origin shape,
\* destination shape, same code, date missing, date past, date too far; "" when
\* no rule fails.
FirstFailure(o, d, date, c) ==
    IF ~MatchesCodePattern(o) THEN MsgOrigin
    ELSE IF ~MatchesCodePattern(d) THEN MsgDestination
    ELSE IF o = d THEN MsgSame
    ELSE IF date = <<>> THEN MsgNoDate
    ELSE IF ParseDate(date[1]) < LocalMidnight(c) THEN MsgPast
    ELSE IF ParseDate(date[1]) > MaxDate(c) THEN MsgTooFar
    ELSE ""

Submitted == last.op = "submit"

AlertText == IF alerts = <<>> THEN "" ELSE alerts[1].text

\* C1: whenever a submitted combination of field values fails some rule, the
\* one message shown is that of the first failing rule in the stated order.
C1_FirstFailingRuleShown ==
    Submitted =>
        LET m == FirstFailure(trim(originField), trim(destField), dateField, clock)
        IN  m # "" => last.prevented /\ last.message = m /\ AlertText = m

\* C2 as stated: a field value that is not exactly three capitals, whitespace
\* around three capitals included, makes the submit fail, and the default
\* action is prevented only when a rule fails.
C2_EveryMalformedFieldValueRejected ==
    Submitted =>
        /\ (~MatchesCodePattern(originField) \/ ~MatchesCodePattern(destField))
               => last.prevented /\ AlertText = last.message /\ AlertText # ""
        /\ last.prevented
               => FirstFailure(originField, destField, dateField, clock) # ""

\* C2 amended: a field value whose trimmed text is not exactly three capitals
\* makes the submit fail with an error shown; the default action is prevented
\* only when a rule fails on the trimmed values, so three capitals with
\* whitespace around them pass the shape rule.
C2_MalformedTrimmedValueRejected ==
    Submitted =>
        /\ (~MatchesCodePattern(trim(originField))
            \/ ~MatchesCodePattern(trim(destField)))
               => last.prevented /\ AlertText = last.message /\ AlertText # ""
        /\ last.prevented
               => FirstFailure(trim(originField), trim(destField),
                               dateField, clock) # ""

\* a submit was rejected for an origin that is malformed even when trimmed
C2_Witness ==
    /\ Submitted /\ last.prevented
    /\ originField # trim(originField)
    /\ ~MatchesCodePattern(trim(originField))
    /\ AlertText = MsgOrigin

CodesValidAndDistinct ==
    /\ MatchesCodePattern(trim(originField))
    /\ MatchesCodePattern(trim(destField))
    /\ trim(originField) # trim(destField)

\* C3: with valid, distinct codes, in every zone and at every hour, a date
\* before today's local date is rejected as past and today's local date is
\* accepted.
C3_PastRejectedTodayAccepted ==
    (Submitted /\ CodesValidAndDistinct /\ dateField # <<>>) =>
        /\ dateField[1] < TodayNumber(clock)
               => last.prevented /\ last.message = MsgPast
        /\ dateField[1] = TodayNumber(clock) => ~last.prevented

\* today plus one calendar year, as a date
YearAhead(c) == DayNumber(c.today.y + 1, c.today.m, c.today.d)

\* C4: with valid, distinct codes, in every zone and at every hour, a date
\* later than today plus one calendar year is rejected as too far and the date
\* exactly one year ahead is accepted.
C4_TooFarRejectedYearAheadAccepted ==
    (Submitted /\ CodesValidAndDistinct /\ dateField # <<>>) =>
        /\ dateField[1] > YearAhead(clock)
               => last.prevented /\ last.message = MsgTooFar
        /\ dateField[1] = YearAhead(clock) => ~last.prevented

\* the text t in capitals, cut to its first three characters
UpperCut(t) ==
    [i \in 1..(IF Len(t) > 3 THEN 3 ELSE Len(t)) |->
        IF \E k \in 1..26 : LowerLetters[k] = t[i]
        THEN UpperLetters[CHOOSE k \in 1..26 : LowerLetters[k] = t[i]]
        ELSE t[i]]

\* the field the last input event was on
EditedField ==
    IF last.op = "input:origin" THEN originField ELSE destField

\* C11: after the input listener ran on a typed text, the field holds that
\* text in capitals cut to at most 3 characters, and running the listener on
\* that value again leaves it as it is.
C11_FieldIsUppercasedAndCut ==
    last.op \in {"input:origin", "input:destination"} =>
        /\ EditedField = UpperCut(last.typed)
        /\ Len(EditedField) <= 3
        /\ Normalize(EditedField) = EditedField

\* 'laxx' was typed into the destination field, which now holds 'LAX'
C11_Witness ==
    /\ last.op = "input:destination"
    /\ last.typed = <<"l","a","x","x">>
    /\ destField = LAX

\* C12: the form never holds more than one error alert; a failed submit
\* leaves exactly one, reused if it was there, with the text of that failure.
C12_OneAlertWithLatestMessage ==
    /\ Len(alerts) <= 1
    /\ (Submitted /\ last.prevented) =>
           /\ Len(alerts) = 1
           /\ alerts[1].text = last.message
           /\ last.message # ""

\* a failed submit found the alert of an earlier failure and put its own
\* message, the same-code one, into it
C12_Witness ==
    /\ Submitted /\ last.prevented /\ last.reused
    /\ Len(alerts) = 1
    /\ alerts[1].text = MsgSame

\* C13: after every call of showFormError the alert element still has its
\* dismiss button.
C13_AlertKeepsDismissButton ==
    \A i \in 1..Len(alerts) : alerts[i].hasDismiss

----------------------------------------------------------------------------
(* Claims: React form, service, cache *)

Count(ev) == Len(SelectSeq(log, LAMBDA e : e = ev))

\* C5: at most one searchFlights call is in flight; while one is pending the
\* submit control is disabled, so a second attempt starts nothing; and every
\* call writes the cache once if it resolves and not at all if it rejects.
C5_OneSearchInFlight ==
    /\ Len(pending) <= 1
    /\ pending # <<>> => submitDisabled /\ isSearching
    /\ Count("searchFlights") = Count("fulfilled") + Count("rejected") + Len(pending)
    /\ Count("setQueryData") = Count("fulfilled")

\* a search was submitted, a second attempt was made while it was pending, and
\* the one call resolved and wrote the cache once
C5_Witness ==
    /\ Count("blocked") >= 1
    /\ Count("searchFlights") = 1
    /\ pending = <<>>
    /\ Count("setQueryData") = 1
    /\ cache # <<>>

\* C6: every parameter object passed to searchFlights has origin and
\* destination of three capitals each, different from each other.
C6_ParamsAreDistinctCodes ==
    \A i \in 1..Len(pending) :
        /\ MatchesCodePattern(pending[i].origin)
        /\ MatchesCodePattern(pending[i].destination)
        /\ pending[i].origin # pending[i].destination

\* the events of the search that rejected at position i of the log: from its
\* call to the end of its handler
SearchSpan(i) ==
    LET from == CHOOSE j \in 1..i :
                    /\ log[j] = "searchFlights"
                    /\ \A k \in (j + 1)..i : log[k] # "searchFlights"
        to == CHOOSE j \in i..Len(log) :
                    /\ log[j] = "setIsSearching(false)"
                    /\ \A k \in i..(j - 1) : log[k] # "setIsSearching(false)"
    IN  SubSeq(log, from, to)

\* C8: a failed searchFlights call shows exactly one error notification, shown
\* by the service before it re-raises; the caller shows nothing more and lets
\* nothing escape the submit handler.
C8_OneErrorNotificationPerFailure ==
    \A i \in 1..Len(log) :
        log[i] = "rejected" =>
            /\ i > 1 /\ log[i - 1] = ToastServiceError
            /\ Len(SelectSeq(SearchSpan(i), IsErrorToast)) = 1
            /\ \A k \in 1..Len(SearchSpan(i)) :
                   SearchSpan(i)[k] \notin {ToastSuccess, "unhandledrejection"}

\* a search failed and its handler ran to the end
C8_Witness ==
    /\ Count("rejected") >= 1
    /\ pending = <<>>
    /\ ~isSearching

CacheHoldsLatest ==
    cache = IF lastResolved = <<>> THEN <<>> ELSE <<lastResolved[1].data>>

\* C9: the cache entry is empty until a search resolves, then holds exactly
\* the data of the most recently resolved search; rendering the chart and the
\* insights never changes it.
C9_CacheHoldsLatestResult ==
    /\ [] CacheHoldsLatest
    /\ [][panel' # panel => cache' = cache]_vars

\* two searches resolved with different data and the cache holds the second
C9_Witness ==
    /\ Count("setQueryData") = 2
    /\ cache # <<>>
    /\ cache[1].priceTrends[1].price = PointPrice(0, 0)
    /\ panel.chart[1].price # PointPrice(0, 0)
    /\ panel.chart # SampleChartData

----------------------------------------------------------------------------
(* Claims: mock service *)

Resolved == svcResult # <<>> /\ svcResult[1].settled = "fulfilled"

\* C7: at any time of day, in any zone, across a daylight-saving change,
\* searchFlights resolves with 14 points whose dates increase strictly from
\* today's date, and 3 insights of type good, warning or info.
C7_FourteenIncreasingDatesFromToday ==
    Resolved =>
        LET pts == svcResult[1].value.data.priceTrends
            ins == svcResult[1].value.data.insights
        IN  /\ Len(pts) = 14
            /\ \A k \in 1..(Len(pts) - 1) : pts[k].date < pts[k + 1].date
            /\ pts[1].date = svcClock.day
            /\ Len(ins) = 3
            /\ \A k \in 1..Len(ins) : ins[k].type \in {"good", "warning", "info"}

\* C10: the point flagged isLowestPrice is priced no higher than any other
\* point of its series.
C10_FlaggedPointIsCheapest ==
    Resolved =>
        LET pts == svcResult[1].value.data.priceTrends
        IN  \A k, j \in 1..Len(pts) :
                pts[k].isLowestPrice => pts[k].price <= pts[j].price

----------------------------------------------------------------------------
(* Claims: insight panel *)

\* the insights the panel is to show for a cache entry
ExpectedInsights(entry) ==
    IF entry = <<>> THEN DefaultInsights
    ELSE IF entry[1].insights = <<>> THEN DefaultInsights
    ELSE entry[1].insights

----------------------------------------------------------------------------
(* Claims: handleSearch's flag and frame *)

\* the events a step adds to the log
NewEvents == SubSeq(log', Len(log) + 1, Len(log'))

InNew(ev) == \E i \in 1..Len(NewEvents) : NewEvents[i] = ev

\* a step in which the form's submit handler starts
SubmitStep == Len(log') > Len(log) /\ log'[Len(log) + 1] = "submit"

AnyRequiredEmpty ==
    \/ Len(origin) = 0 \/ Len(destination) = 0
    \/ Len(departDate) = 0 \/ Len(returnDate) = 0

\* C15: isSearching turns true only in a submit whose four required fields
\* are filled, and whenever it is true it is false again later, whichever
\* way the call settles; so is the disabled state of the submit button.
C15_SearchingFlagReturnsToFalse ==
    /\ [][(~isSearching /\ isSearching')
            => (SubmitStep /\ ~AnyRequiredEmpty /\ InNew("searchFlights"))]_vars
    /\ (isSearching ~> ~isSearching)
    /\ (submitDisabled ~> ~submitDisabled)

\* a search was rejected after an earlier one succeeded, and the form is
\* usable again
C15_Witness ==
    /\ Count("rejected") > 0 /\ Count("fulfilled") > 0
    /\ log[Len(log)] = "setIsSearching(false)"
    /\ log[Len(log) - 1] = "console.error"
    /\ ~isSearching /\ ~submitDisabled

\* C16: a step in which a call fails leaves the cache entry as it was and
\* shows no success notification; every success notification in the log
\* comes right after the cache write of its search.
C16_FailureLeavesCacheAlone ==
    /\ [][InNew("rejected")
            => /\ cache' = cache
               /\ ~InNew(ToastSuccess)
               /\ ~InNew("setQueryData")]_vars
    /\ [](\A i \in 1..Len(log) :
             log[i] = ToastSuccess => (i > 1 /\ log[i - 1] = "setQueryData"))

\* the second search failed and the cache still holds the first one's result
C16_Witness ==
    /\ Count("fulfilled") = 1 /\ Count("rejected") = 1
    /\ log[Len(log) - 1] = "console.error"
    /\ cache # <<>> /\ cache = <<lastResolved[1].data>>
    /\ Count(ToastSuccess) = 1

\* C17: a submit with one of the four required fields empty adds one error
\* notification and nothing else: no service call, isSearching stays false,
\* the cache entry is as before.
C17_MissingFieldStopsSubmit ==
    [][(SubmitStep /\ AnyRequiredEmpty)
        => /\ NewEvents = <<"submit", ToastRequired>>
           /\ ~isSearching' /\ isSearching' = isSearching
           /\ pending' = pending
           /\ cache' = cache]_vars

\* after a successful search the form was submitted with only the return
\* date missing
C17_Witness ==
    /\ Len(log) > 1 /\ log[Len(log)] = ToastRequired
    /\ returnDate = <<>> /\ origin # <<>> /\ destination # <<>>
    /\ departDate # <<>>
    /\ cache # <<>> /\ ~isSearching /\ pending = <<>>
    /\ Count("searchFlights") = 1

====
